---- MODULE Spec2Model ----
(***************************************************************************)
(* Synthetic food-delivery OLTP generator (src/oltp/populate_oltp.py).     *)
(*                                                                         *)
(* Units.  Money is an integer number of cents (qround(x, 2) yields a      *)
(* value with two decimals).  A timestamp is an integer number of seconds; *)
(* every timestamp of a run is utc_now() plus or minus whole seconds, so   *)
(* the sub-second part of utc_now() is common to all of them and dropped.  *)
(* A draw of rng.uniform(a, b) is a rational given by an integer numerator *)
(* over a fixed denominator (basis points, per mille); rng.random() is a   *)
(* per-mille value in 0..999.                                              *)
(***************************************************************************)
EXTENDS Integers, Sequences, FiniteSets, TLC

(***************************************************************************)
(* Bounds of the model.                                                    *)
(***************************************************************************)
\* Number of interior points sampled in each random range, besides its two ends.
Interior == 1
\* Largest N_ORDERS (populate_oltp.py:42) and CHUNK_ROWS (:48) explored.
MaxOrders == 3
MaxChunk == 2
\* Largest number of items of one order explored (rng.randint(1, 5) in the code).
MaxItems == 2
\* Wall-clock reading (seconds) of the earliest run.
Clock0 == 8000000
\* Largest number of seconds the wall clock advances while runs are compared.
MaxTicks == 2
\* Customers in the id range of gen_customer_addresses and N_CUSTOMERS (:37).
MaxCustomers == 3
\* N_OUTLETS (:39) explored.
MaxOutlets == 3
\* Times the batch load is run again over the same id range.
MaxReruns == 1
\* Rows main loads into each table that has a row count of its own
\* (N_CUSTOMERS, N_BRANDS, N_OUTLETS, N_COURIERS; lines 37-41).
MaxRows == 2

(***************************************************************************)
(* Program constants.                                                      *)
(***************************************************************************)
ORDERS_DAYS == 90
SAFETY_BUFFER_HOURS == 8

PAYMENT_METHODS ==
  <<"CARD", "DIGITAL_WALLET", "CONTACTLESS_NFC", "CASH", "PAYPAL", "BANK_TRANSFER">>
REFUND_REASONS ==
  <<"LATE_DELIVERY", "MISSING_ITEM", "WRONG_ITEM", "QUALITY_ISSUE", "OTHER">>
CANCELED_PAYMENT_STATUSES == <<"FAILED", "PENDING">>

(***************************************************************************)
(* State.                                                                  *)
(***************************************************************************)
VARIABLES
  clock,          \* the wall clock read by utc_now()
  n_orders,       \* N_ORDERS of this run
  chunk_rows,     \* CHUNK_ROWS of this run
  ref,            \* id ranges, currency ids and address lookup read from storage
  pc,             \* position in populate_orders_related
  now,            \* now = utc_now() of populate_orders_related
  base_order_id,  \* base_order_id
  i,              \* the loop index: orders generated so far
  buf,            \* the six row buffers
  db,             \* the six tables
  reruns,         \* times the batch load was run again over the same id range
  ga,             \* gen_customer_addresses: its arguments, position and rows yielded
  go,             \* gen_outlets: its arguments, position, used_keys and rows yielded
  seeded,         \* the stream of random.Random(SEED), when the runs are compared
  customers,      \* the customers table
  first,          \* the rows generated by the first of two compared runs
  window,         \* ORDERS_DAYS and SAFETY_BUFFER_HOURS as configured
  store,          \* the reference tables as the connection sees them
  durable,        \* the committed rows of all tables
  mn,             \* main: its position, its connection, cursors and COPY handles
  ex,             \* postgres_to_duckdb.py: its position and its connection
  seq,            \* the serial sequence of each table written by the batch load
  calls,          \* the calls of _flush_orders_batch made so far
  made,           \* the orders the loop has generated so far, with their rows
  tcall           \* a call of a timeline builder: its arguments and result

vars ==
  <<clock, n_orders, chunk_rows, ref, pc, now, base_order_id, i, buf, db,
    reruns, ga, go, seeded, customers, first,
    window, store, durable, mn, ex, seq, calls, made, tcall>>

\* What populate_orders_related neither reads nor writes.
others == <<reruns, ga, go, seeded, customers, first>>

\* What only main, the export script and the timeline calls touch.
aux == <<window, store, durable, mn, ex, tcall>>

\* What only the loop and _flush_orders_batch write.
flushed == <<seq, calls, made>>

(***************************************************************************)
(* Sampling of the random sources.                                         *)
(***************************************************************************)
\* The ends of lo..hi and Interior evenly spaced points between them.
Ends(lo, hi) ==
  {lo, hi} \cup {lo + ((hi - lo) * k) \div (Interior + 1) : k \in 1..Interior}

\* Only the lower end: used for the draws a specification does not vary.
Low(lo, hi) == {lo}

\* The sample of lo..hi of the kind a profile asks for.
Sample(kind, lo, hi) == IF kind = "ends" THEN Ends(lo, hi) ELSE Low(lo, hi)

\* rng.random(), in per mille: below, between and above every threshold used.
RandomUnit == {0, 500, 999}

\* rng.random() < p, with p in per mille.
Below(r, p) == r < p

RECURSIVE SumSeq(_)
SumSeq(s) == IF s = <<>> THEN 0 ELSE Head(s) + SumSeq(Tail(s))

Last(s) == s[Len(s)]

Rows(s) == {s[k] : k \in 1..Len(s)}

\* The values of column col in the rows of a table.
Column(tbl, col) == {tbl[k][col] : k \in 1..Len(tbl)}

\* SELECT min(col), max(col) FROM a table with at least one row.
MinOf(S) == CHOOSE x \in S : \A y \in S : x <= y
MaxOf(S) == CHOOSE x \in S : \A y \in S : y <= x

(***************************************************************************)
(* Money: populate_orders_related, lines 666-691.                          *)
(***************************************************************************)
\* qround(x, 2) of the rational x = n / d cents (n >= 0, d > 0): the epsilon
\* added before rounding sends a tie upwards.
qround(n, d) == (2 * n + d) \div (2 * d)

\* Mutant: the quantity is left out of the line total.
LineTotalIgnoresQuantity(qty, unit_price) == qround(unit_price, 1)

\* line_total = qround(qty * unit_price, 2)
LineTotal(qty, unit_price) == qround(qty * unit_price, 1)

\* items.append((menu_item_id, qty, unit_price, line_total))
ItemOf(dr) ==
  [menu_item_id |-> dr.menu_item_id, quantity |-> dr.qty,
   unit_price |-> dr.unit_price,
   line_total |-> LineTotal(dr.qty, dr.unit_price)]

ItemsOf(drs) == [k \in 1..Len(drs) |-> ItemOf(drs[k])]

\* subtotal += line_total over the items, then qround(subtotal, 2)
Subtotal(items) ==
  qround(SumSeq([k \in 1..Len(items) |-> items[k].line_total]), 1)

\* tax = qround(subtotal * rng.uniform(0.05, 0.12), 2); the rate in basis points
Tax(subtotal, rate_bp) == qround(subtotal * rate_bp, 10000)

\* discount_cap = max(0.0, subtotal + tax + delivery_fee)
DiscountCap(subtotal, tax, delivery_fee) ==
  IF subtotal + tax + delivery_fee > 0 THEN subtotal + tax + delivery_fee ELSE 0

\* discount = qround(min(discount_cap, rng.uniform(0.0, subtotal * 0.20)), 2);
\* the draw is u per mille of the way from 0 to subtotal * 0.20, that is
\* subtotal * u / 5000 cents.
Discount(subtotal, tax, delivery_fee, u) ==
  LET cap == DiscountCap(subtotal, tax, delivery_fee)
  IN  IF cap * 5000 <= subtotal * u
      THEN qround(cap, 1)
      ELSE qround(subtotal * u, 5000)

\* Mutant: the discount is added instead of subtracted.
TotalAmountAddsDiscount(subtotal, tax, delivery_fee, discount) ==
  qround(subtotal + tax + delivery_fee + discount, 1)

\* total_amount = qround(subtotal + tax + delivery_fee - discount, 2)
TotalAmount(subtotal, tax, delivery_fee, discount) ==
  qround(subtotal + tax + delivery_fee - discount, 1)

(***************************************************************************)
(* Time: the order window and the two timeline builders.                   *)
(***************************************************************************)
Minutes(m) == m * 60
Hours(h) == h * 3600
Days(d) == d * 86400

\* start_ts = now - timedelta(days=ORDERS_DAYS)
StartTs(t) == t - Days(window.days)
\* Mutant: the window ends at now, without the safety buffer.
EndTsNoBuffer(t) == t

\* end_ts = now - timedelta(hours=SAFETY_BUFFER_HOURS)
EndTs(t) == t - Hours(window.hours)
\* int((end_ts - start_ts).total_seconds())
WindowSeconds(t) == EndTs(t) - StartTs(t)
\* placed_at = start_ts + timedelta(seconds=rng.randint(0, window))
PlacedAt(t, off) == StartTs(t) + off

\* latest_allowed = now - timedelta(minutes=1)
LatestAllowed(t) == t - Minutes(1)

\* def clamp(ts): return ts if ts <= latest_allowed else latest_allowed
clamp(ts, latest_allowed) == IF ts <= latest_allowed THEN ts ELSE latest_allowed

\* Mutant: the repaired timestamp is not clamped again.
ensure_afterUnclamped(ts, prev, latest_allowed) ==
  IF ts <= prev THEN prev + Minutes(1) ELSE ts

\* def ensure_after(ts, prev)
ensure_after(ts, prev, latest_allowed) ==
  IF ts <= prev THEN clamp(prev + Minutes(1), latest_allowed) ELSE ts

\* Mutant: the timestamps of READY_FOR_PICKUP and PICKED_UP are exchanged.
DeliveredEventsSwapped(placed_ts, accepted_ts, prep_start_ts, ready_ts, picked_up_ts, delivered_ts) ==
  << [event_ts |-> placed_ts, status |-> "PLACED", actor |-> "CUSTOMER"],
     [event_ts |-> accepted_ts, status |-> "ACCEPTED", actor |-> "RESTAURANT"],
     [event_ts |-> prep_start_ts, status |-> "PREP_START", actor |-> "RESTAURANT"],
     [event_ts |-> picked_up_ts, status |-> "READY_FOR_PICKUP", actor |-> "RESTAURANT"],
     [event_ts |-> ready_ts, status |-> "PICKED_UP", actor |-> "COURIER"],
     [event_ts |-> delivered_ts, status |-> "DELIVERED", actor |-> "SYSTEM"] >>

\* Mutant: the PICKED_UP event is left out of the list.
DeliveredEventsNoPickedUp(placed_ts, accepted_ts, prep_start_ts, ready_ts, picked_up_ts, delivered_ts) ==
  << [event_ts |-> placed_ts, status |-> "PLACED", actor |-> "CUSTOMER"],
     [event_ts |-> accepted_ts, status |-> "ACCEPTED", actor |-> "RESTAURANT"],
     [event_ts |-> prep_start_ts, status |-> "PREP_START", actor |-> "RESTAURANT"],
     [event_ts |-> ready_ts, status |-> "READY_FOR_PICKUP", actor |-> "RESTAURANT"],
     [event_ts |-> delivered_ts, status |-> "DELIVERED", actor |-> "SYSTEM"] >>

\* The events list of build_order_timeline_delivered.
DeliveredEvents(placed_ts, accepted_ts, prep_start_ts, ready_ts, picked_up_ts, delivered_ts) ==
  << [event_ts |-> placed_ts, status |-> "PLACED", actor |-> "CUSTOMER"],
     [event_ts |-> accepted_ts, status |-> "ACCEPTED", actor |-> "RESTAURANT"],
     [event_ts |-> prep_start_ts, status |-> "PREP_START", actor |-> "RESTAURANT"],
     [event_ts |-> ready_ts, status |-> "READY_FOR_PICKUP", actor |-> "RESTAURANT"],
     [event_ts |-> picked_up_ts, status |-> "PICKED_UP", actor |-> "COURIER"],
     [event_ts |-> delivered_ts, status |-> "DELIVERED", actor |-> "SYSTEM"] >>

\* build_order_timeline_delivered(rng, placed_at, now); d holds the eight
\* rng.randint draws, in minutes.
build_order_timeline_delivered(d, placed_at, t) ==
  LET la == LatestAllowed(t)
      placed_ts == placed_at
      accepted0 == placed_ts + Minutes(d.accept)
      prep0 == accepted0 + Minutes(d.prep)
      ready0 == prep0 + Minutes(d.ready)
      assigned0 == ready0 + Minutes(d.assign)
      pickup0 == assigned0 + Minutes(d.pickup)
      picked0 == pickup0 + Minutes(d.picked)
      dropoff0 == pickup0 + Minutes(d.dropoff)
      delivered0 == dropoff0 + Minutes(d.deliver)
      accepted_ts == ensure_after(clamp(accepted0, la), placed_ts, la)
      prep_start_ts == ensure_after(clamp(prep0, la), accepted_ts, la)
      ready_ts == ensure_after(clamp(ready0, la), prep_start_ts, la)
      assigned_at == ensure_after(clamp(assigned0, la), ready_ts, la)
      pickup_eta == ensure_after(clamp(pickup0, la), assigned_at, la)
      picked_up_ts == ensure_after(clamp(picked0, la), pickup_eta, la)
      dropoff_eta == ensure_after(clamp(dropoff0, la), picked_up_ts, la)
      delivered_ts == ensure_after(clamp(delivered0, la), dropoff_eta, la)
  IN  [events |-> DeliveredEvents(placed_ts, accepted_ts, prep_start_ts,
                                  ready_ts, picked_up_ts, delivered_ts),
       assigned_at |-> assigned_at,
       pickup_eta |-> pickup_eta,
       dropoff_eta |-> dropoff_eta,
       delivered_ts |-> delivered_ts]

\* The events list of build_order_timeline_canceled.
CanceledEvents(placed_ts, canceled_ts) ==
  << [event_ts |-> placed_ts, status |-> "PLACED", actor |-> "CUSTOMER"],
     [event_ts |-> canceled_ts, status |-> "CANCELED", actor |-> "SYSTEM"] >>

\* build_order_timeline_canceled(rng, placed_at, now); cancel is the
\* rng.randint(2, 30) draw, in minutes.
build_order_timeline_canceled(cancel, placed_at, t) ==
  LET la == LatestAllowed(t)
      placed_ts == placed_at
      c0 == placed_ts + Minutes(cancel)
      c1 == IF c0 > la THEN la ELSE c0
      c2 == IF c1 <= placed_ts
            THEN (IF placed_ts + Minutes(1) > la THEN la ELSE placed_ts + Minutes(1))
            ELSE c1
  IN  [events |-> CanceledEvents(placed_ts, c2), canceled_ts |-> c2]

(***************************************************************************)
(* One iteration of the loop of populate_orders_related (lines 655-761) as *)
(* a function of the order id, the reading of utc_now(), the reference     *)
(* data read from storage and the values drawn from rng.                   *)
(***************************************************************************)
\* def currency_for_country(country)
currency_for_country(country, rf) ==
  IF country = "Australia" THEN rf.aud_id ELSE rf.inr_id

\* refund_ts = timeline["delivered_ts"] + timedelta(minutes=rng.randint(5, 180))
RefundTs(delivered_ts, delta) == delivered_ts + Minutes(delta)

\* Mutant: the refund factor is drawn from 0.5 .. 8.0.
RefundAmountTenfold(total_amount, u) == qround(total_amount * u * 10, 1000)

\* refund_amount = qround(total_amount * rng.uniform(0.05, 0.80), 2); the
\* factor in per mille
RefundAmount(total_amount, u) == qround(total_amount * u, 1000)

\* rating_created = timeline["delivered_ts"] + timedelta(minutes=rng.randint(2, 240))
RatingCreated(delivered_ts, delta) == delivered_ts + Minutes(delta)

\* The order_items rows appended for one order (both branches).
ItemRows(order_id, items) ==
  [k \in 1..Len(items) |->
     [order_id |-> order_id, menu_item_id |-> items[k].menu_item_id,
      quantity |-> items[k].quantity, unit_price |-> items[k].unit_price,
      line_total |-> items[k].line_total]]

\* The order_status_events rows appended for one order (both branches).
EventRows(order_id, events) ==
  [k \in 1..Len(events) |->
     [order_id |-> order_id, event_ts |-> events[k].event_ts,
      status |-> events[k].status, actor |-> events[k].actor]]

\* The refunds row of a delivered order, if rng.random() < 0.035.
RefundRows(order_id, total_amount, delivered_ts, currency_id, rd) ==
  IF Below(rd.r, 35)
  THEN << [order_id |-> order_id,
           refund_ts |-> RefundTs(delivered_ts, rd.delta),
           refund_reason |-> REFUND_REASONS[rd.reason],
           refund_amount |-> RefundAmount(total_amount, rd.u),
           currency_id |-> currency_id] >>
  ELSE << >>

\* The ratings row of a delivered order, if rng.random() < 0.55.
RatingRows(order_id, customer_id, delivered_ts, gd) ==
  IF Below(gd.r, 550)
  THEN << [order_id |-> order_id, customer_id |-> customer_id,
           restaurant_rating |-> gd.restaurant_rating,
           courier_rating |->
             IF Below(gd.courier_r, 850) THEN gd.courier_rating ELSE 0,
           comment |->
             IF Below(gd.comment_r, 750) THEN "NULL" ELSE "Tasty and fast delivery.",
           created_at |-> RatingCreated(delivered_ts, gd.delta)] >>
  ELSE << >>

\* Mutant: no delivery_assignments row is appended.
AssignmentRowsNever(order_id, delivered, tl, timeline) == << >>

\* The delivery_assignments row appended in the delivered branch (lines
\* 699-704); the canceled branch appends none.
AssignmentRows(order_id, delivered, tl, timeline) ==
  IF delivered
  THEN << [order_id |-> order_id, courier_id |-> tl.courier_id,
           assigned_at |-> timeline.assigned_at,
           pickup_eta |-> timeline.pickup_eta,
           dropoff_eta |-> timeline.dropoff_eta] >>
  ELSE << >>

\* payment_status of a delivered order: PAID, or REFUNDED for 75% of refunds.
DeliveredPaymentStatus(rd) ==
  IF Below(rd.r, 35) /\ Below(rd.refunded_r, 750) THEN "REFUNDED" ELSE "PAID"

\* delivered = rng.random() < 0.92
IsDelivered(h) == Below(h.delivered_r, 920)

BuildOrder(order_id, t, rf, h, tl) ==
  LET addr == rf.address_map[h.customer_id][h.addr_idx]
      placed_at == PlacedAt(t, h.placed_off)
      items == ItemsOf(h.items)
      subtotal == Subtotal(items)
      tax == Tax(subtotal, h.tax_bp)
      delivery_fee == qround(h.fee, 1)
      discount == Discount(subtotal, tax, delivery_fee, h.disc_u)
      total_amount == TotalAmount(subtotal, tax, delivery_fee, discount)
      delivered == IsDelivered(h)
      currency_id == currency_for_country(addr.country, rf)
      timeline == IF delivered
                  THEN build_order_timeline_delivered(tl.d, placed_at, t)
                  ELSE build_order_timeline_canceled(tl.cancel, placed_at, t)
      payment_status == IF delivered
                        THEN DeliveredPaymentStatus(tl.refund)
                        ELSE CANCELED_PAYMENT_STATUSES[tl.status]
  IN  [order |->
         [order_id |-> order_id, customer_id |-> h.customer_id,
          delivery_address_id |-> addr.address_id,
          restaurant_id |-> h.restaurant_id,
          order_placed_at |-> placed_at, scheduled_delivery |-> "NULL",
          subtotal |-> subtotal, tax |-> tax, delivery_fee |-> delivery_fee,
          discount |-> discount, total_amount |-> total_amount,
          payment_method |-> PAYMENT_METHODS[h.pay],
          payment_status |-> payment_status, currency_id |-> currency_id],
       items |-> ItemRows(order_id, items),
       events |-> EventRows(order_id, timeline.events),
       assignments |-> AssignmentRows(order_id, delivered, tl, timeline),
       refunds |->
         IF delivered
         THEN RefundRows(order_id, total_amount, timeline.delivered_ts,
                         currency_id, tl.refund)
         ELSE << >>,
       ratings |->
         IF delivered
         THEN RatingRows(order_id, h.customer_id, timeline.delivered_ts, tl.rating)
         ELSE << >>]

(***************************************************************************)
(* The values drawn from rng in one iteration.  A profile P says how each  *)
(* group of ranges is sampled ("ends" or "low"): P.items the item count,   *)
(* P.money the money draws, P.time the timeline draws, P.extra the refund  *)
(* and rating draws, P.ids the identifier draws; P.refund, P.rating and    *)
(* P.detail are the values of rng.random() tried for those decisions.      *)
(***************************************************************************)
Min(a, b) == IF a <= b THEN a ELSE b

\* menu_item_id, qty and unit_price of one item (lines 672-676)
ItemDraws(P, rf) ==
  [menu_item_id : Sample(P.ids, rf.menu_lo, rf.menu_hi),
   qty : Sample(P.money, 1, 3),
   unit_price : Sample(P.money, 500, 3500)]

\* n_items = rng.randint(1, 5), then one item draw per item
ItemLists(P, rf) ==
  UNION {[1..n -> ItemDraws(P, rf)] : n \in Sample(P.items, 1, Min(5, MaxItems))}

\* The draws of lines 658-695, but the address (drawn once the customer is known).
HeadDraws(P, rf, t) ==
  [customer_id : Sample(P.ids, rf.cust_lo, rf.cust_hi),
   restaurant_id : Sample(P.ids, rf.outlet_lo, rf.outlet_hi),
   placed_off : Sample(P.time, 0, WindowSeconds(t)),
   items : ItemLists(P, rf),
   tax_bp : Sample(P.money, 500, 1200),
   fee : Sample(P.money, 100, 800),
   disc_u : Sample(P.money, 0, 1000),
   pay : Sample(P.ids, 1, Len(PAYMENT_METHODS)),
   delivered_r : RandomUnit]

\* address_id, _addr_city, addr_country = rng.choice(address_map[customer_id])
WithAddress(h0, addr_idx) ==
  [customer_id |-> h0.customer_id, addr_idx |-> addr_idx,
   restaurant_id |-> h0.restaurant_id, placed_off |-> h0.placed_off,
   items |-> h0.items, tax_bp |-> h0.tax_bp, fee |-> h0.fee,
   disc_u |-> h0.disc_u, pay |-> h0.pay, delivered_r |-> h0.delivered_r]

\* The eight rng.randint draws of build_order_timeline_delivered (lines 484-493).
TimelineDraws(P) ==
  [accept : Sample(P.time, 1, 6), prep : Sample(P.time, 2, 10),
   ready : Sample(P.time, 5, 20), assign : Sample(P.time, 1, 8),
   pickup : Sample(P.time, 10, 25), picked : Sample(P.time, 0 - 3, 3),
   dropoff : Sample(P.time, 10, 35), deliver : Sample(P.time, 0 - 3, 3)]

\* The draws of the refund subset (lines 713-721); those after the decision
\* are made only when it is taken.
RefundDraws(P) ==
  [r : {x \in P.refund : ~Below(x, 35)}, delta : {5}, u : {50}, reason : {1},
   refunded_r : {0}]
  \cup
  [r : {x \in P.refund : Below(x, 35)}, delta : Sample(P.extra, 5, 180),
   u : Sample(P.extra, 50, 800), reason : Sample(P.ids, 1, Len(REFUND_REASONS)),
   refunded_r : P.detail]

\* The draws of the ratings subset (lines 724-729).
RatingDraws(P) ==
  [r : {x \in P.rating : ~Below(x, 550)}, delta : {2}, restaurant_rating : {1},
   courier_r : {0}, courier_rating : {1}, comment_r : {0}]
  \cup
  [r : {x \in P.rating : Below(x, 550)}, delta : Sample(P.extra, 2, 240),
   restaurant_rating : Sample(P.ids, 1, 5), courier_r : P.detail,
   courier_rating : Sample(P.ids, 1, 5), comment_r : P.detail]

\* The draws of the branch taken after delivered = rng.random() < 0.92.
TailDraws(h, P, rf) ==
  IF IsDelivered(h)
  THEN [d : TimelineDraws(P),
        courier_id : Sample(P.ids, rf.courier_lo, rf.courier_hi),
        refund : RefundDraws(P),
        rating : RatingDraws(P)]
  ELSE [status : Sample(P.ids, 1, Len(CANCELED_PAYMENT_STATUSES)),
        cancel : Sample(P.time, 2, 30)]

(***************************************************************************)
(* The reference-data generators.                                          *)
(***************************************************************************)
\* gen_customers: the row of customer k of a generator started at wall-clock
\* reading t (base_ts = utc_now() - timedelta(days=365 * 2)); cd holds the
\* draws of its iteration.
CustomerRow(k, t, cd) ==
  [full_name |-> k, email |-> k,
   phone |-> IF Below(cd.phone_r, 650) THEN "DUMMY-0000000000" ELSE "NULL",
   created_at |-> (t - Days(365 * 2)) + Minutes(cd.minutes)]

\* The rows of one run of gen_customers with the draws cds.
CustomerRows(t, cds) == [k \in 1..Len(cds) |-> CustomerRow(k, t, cds[k])]

\* Lines 214-220: the number of addresses from r = rng.random(), in per mille.
NAddr(r) == IF Below(r, 700) THEN 1 ELSE IF Below(r, 950) THEN 2 ELSE 3

\* r on both sides of each threshold of lines 215-220.
NAddrDraws == {0, 699, 700, 949, 950, 999}

\* Mutant: the index is drawn with rng.randint(0, n_addr), ends included.
DefaultIdxInclusive(n_addr) == 0..n_addr

\* default_idx = rng.randrange(n_addr)
DefaultIdxChoices(n_addr) == 0..(n_addr - 1)

\* Lines 239-270: the rows yielded for one customer; j counts from 1 here, so
\* is_default = (j == default_idx) reads j - 1 = default_idx.
AddressRows(customer_id, n_addr, country, default_idx) ==
  [j \in 1..n_addr |->
     [customer_id |-> customer_id, label |-> "HOME", line_1 |-> j,
      country |-> country, is_default |-> (j - 1 = default_idx)]]

\* key = (brand_id, outlet_name, city, delivery_zone)
OutletKey(brand_id, outlet_name, city, delivery_zone) ==
  <<brand_id, outlet_name, city, delivery_zone>>

\* Mutant: the collision check is dropped.
KeyCollidesNever(key, used_keys) == FALSE

\* while key in used_keys
KeyCollides(key, used_keys) == key \in used_keys

\* outlet_name = f"Outlet {rng.randint(1, 50_000)}"
OutletNames == Ends(1, 50000)

\* city, _, _country = rng.choice(AU_CITIES if is_au else IN_CITIES)
OutletCity(is_au_r) == IF Below(is_au_r, 550) THEN "Sydney" ELSE "Hyderabad"

(***************************************************************************)
(* Storage: the tables written by populate_orders_related, each the        *)
(* sequence of its rows in insertion order.                                *)
(***************************************************************************)
EmptyTables ==
  [orders |-> << >>, order_items |-> << >>, order_status_events |-> << >>,
   delivery_assignments |-> << >>, refunds |-> << >>, ratings |-> << >>]

\* The sequences of an empty schema, and of a loaded store (LoadedStore below).
EmptySeq ==
  [customers |-> 0, customer_addresses |-> 0, restaurant_brands |-> 0,
   restaurant_outlets |-> 0, menu_items |-> 0, couriers |-> 0, currencies |-> 0,
   fx_rates |-> 0, orders |-> 0, order_items |-> 0, order_status_events |-> 0,
   delivery_assignments |-> 0, refunds |-> 0, ratings |-> 0]
LoadedSeq ==
  [EmptySeq EXCEPT !.customers = 2, !.customer_addresses = 3,
                   !.restaurant_brands = 1, !.restaurant_outlets = 2,
                   !.menu_items = 2, !.couriers = 2, !.currencies = 2,
                   !.fx_rates = 2]

\* orders_rows = [] ... ratings_rows = [] (lines 611-616), and the clears
EmptyBuffers ==
  [orders_rows |-> << >>, order_items_rows |-> << >>, events_rows |-> << >>,
   assignments_rows |-> << >>, refunds_rows |-> << >>, ratings_rows |-> << >>]

HasOrder(tbl, order_id) == \E k \in 1..Len(tbl) : tbl[k].order_id = order_id

\* Mutant: a plain INSERT into a table without the conflict clause.
InsertPlain(tbl, row) == Append(tbl, row)

\* INSERT INTO orders ... ON CONFLICT (order_id) DO NOTHING, for one staged row
InsertOnConflictDoNothing(tbl, row) ==
  IF HasOrder(tbl, row.order_id) THEN tbl ELSE Append(tbl, row)

\* INSERT INTO orders SELECT ... FROM _stg_orders ON CONFLICT (order_id) DO NOTHING
RECURSIVE MergeStaged(_, _)
MergeStaged(tbl, stg) ==
  IF stg = << >> THEN tbl
  ELSE MergeStaged(InsertOnConflictDoNothing(tbl, Head(stg)), Tail(stg))

\* The serial column of each table the flush loads without identifiers, as
\* named in the setval calls (lines 897-910); the source loads
\* delivery_assignments the same way and names no sequence for it.
SerialColumn ==
  [order_items |-> "order_item_id", order_status_events |-> "event_id",
   delivery_assignments |-> "assignment_id", refunds |-> "refund_id",
   ratings |-> "rating_id"]

\* copy_rows of a child table, when the batch has rows for it: each row gets
\* the next value of the table's sequence.
CopyChild(s, table, rows) ==
  IF rows = << >> THEN s
  ELSE [s EXCEPT
          !.db[table] =
            @ \o [k \in 1..Len(rows) |->
                    (SerialColumn[table] :> s.seq[table] + k) @@ rows[k]],
          !.seq[table] = @ + Len(rows)]

\* setval(sequence, (SELECT COALESCE(MAX(col), 1) FROM table))
Setval(tbl, col) == IF tbl = << >> THEN 1 ELSE MaxOf(Column(tbl, col))

\* Mutant: the sequence of orders is not realigned.
SetvalsChildrenOnly(s) ==
  [s EXCEPT
     !.seq.order_items = Setval(s.db.order_items, "order_item_id"),
     !.seq.order_status_events = Setval(s.db.order_status_events, "event_id"),
     !.seq.refunds = Setval(s.db.refunds, "refund_id"),
     !.seq.ratings = Setval(s.db.ratings, "rating_id")]

\* Lines 891-911: the five setval calls.
Setvals(s) ==
  [s EXCEPT
     !.seq.orders = Setval(s.db.orders, "order_id"),
     !.seq.order_items = Setval(s.db.order_items, "order_item_id"),
     !.seq.order_status_events = Setval(s.db.order_status_events, "event_id"),
     !.seq.refunds = Setval(s.db.refunds, "refund_id"),
     !.seq.ratings = Setval(s.db.ratings, "rating_id")]

\* Mutant: the child tables are loaded before the orders are merged.
FlushTraceChildrenFirst(tables, sq, b) ==
  LET s1 == [db |-> tables, seq |-> sq, stg |-> b.orders_rows]
      s2 == CopyChild(s1, "order_items", b.order_items_rows)
      s3 == CopyChild(s2, "order_status_events", b.events_rows)
      s4 == CopyChild(s3, "delivery_assignments", b.assignments_rows)
      s5 == CopyChild(s4, "refunds", b.refunds_rows)
      s6 == CopyChild(s5, "ratings", b.ratings_rows)
      s7 == [s6 EXCEPT !.db.orders = MergeStaged(@, s6.stg)]
      s8 == [s7 EXCEPT !.stg = << >>]
  IN  <<s1, s2, s3, s4, s5, s6, s7, s8, Setvals(s8)>>

\* _flush_orders_batch statement by statement: the storage (the six tables,
\* their sequences and the staging table, empty before the call) after the
\* COPY into _stg_orders, after the merge into orders, after the TRUNCATE of
\* the staging table, after the COPY of each child table, after the setvals.
FlushTrace(tables, sq, b) ==
  LET s1 == [db |-> tables, seq |-> sq, stg |-> b.orders_rows]
      s2 == [s1 EXCEPT !.db.orders = MergeStaged(@, s1.stg)]
      s3 == [s2 EXCEPT !.stg = << >>]
      s4 == CopyChild(s3, "order_items", b.order_items_rows)
      s5 == CopyChild(s4, "order_status_events", b.events_rows)
      s6 == CopyChild(s5, "delivery_assignments", b.assignments_rows)
      s7 == CopyChild(s6, "refunds", b.refunds_rows)
      s8 == CopyChild(s7, "ratings", b.ratings_rows)
  IN  <<s1, s2, s3, s4, s5, s6, s7, s8, Setvals(s8)>>

\* _flush_orders_batch: the storage it leaves.
FlushOrdersBatch(tables, sq, b) == Last(FlushTrace(tables, sq, b))

\* SELECT COALESCE(MAX(order_id), 0) FROM orders
RECURSIVE MaxOrderId(_)
MaxOrderId(tbl) ==
  IF tbl = << >> THEN 0
  ELSE LET m == MaxOrderId(Tail(tbl))
       IN  IF Head(tbl).order_id > m THEN Head(tbl).order_id ELSE m

\* Mutant: the flush waits for one row more than CHUNK_ROWS.
BufferFullLate(n, chunk) == n > chunk

\* if len(orders_rows) >= CHUNK_ROWS
BufferFull(n, chunk) == n >= chunk

\* The rows one iteration appends to the six buffers (lines 702-761).
AppendOrder(b, o) ==
  [orders_rows |-> Append(b.orders_rows, o.order),
   order_items_rows |-> b.order_items_rows \o o.items,
   events_rows |-> b.events_rows \o o.events,
   assignments_rows |-> b.assignments_rows \o o.assignments,
   refunds_rows |-> b.refunds_rows \o o.refunds,
   ratings_rows |-> b.ratings_rows \o o.ratings]

(***************************************************************************)
(* The reference tables and what populate_orders_related reads from them.  *)
(* A table is the sequence of its rows; only the columns that identify a   *)
(* row or refer to another table are kept.                                 *)
(***************************************************************************)
EmptyStore ==
  [customers |-> << >>, customer_addresses |-> << >>, restaurant_brands |-> << >>,
   restaurant_outlets |-> << >>, menu_items |-> << >>, couriers |-> << >>,
   currencies |-> << >>, fx_rates |-> << >>]

\* A loaded store: two customers, the first with one Australian address, the
\* second with two Indian ones, two outlets of one brand with one menu item
\* each, two couriers, both currencies.
LoadedStore ==
  [customers |-> << [customer_id |-> 1], [customer_id |-> 2] >>,
   customer_addresses |->
     << [address_id |-> 1, customer_id |-> 1, country |-> "Australia"],
        [address_id |-> 2, customer_id |-> 2, country |-> "India"],
        [address_id |-> 3, customer_id |-> 2, country |-> "India"] >>,
   restaurant_brands |-> << [brand_id |-> 1] >>,
   restaurant_outlets |->
     << [restaurant_id |-> 1, brand_id |-> 1], [restaurant_id |-> 2, brand_id |-> 1] >>,
   menu_items |->
     << [menu_item_id |-> 1, restaurant_id |-> 1],
        [menu_item_id |-> 2, restaurant_id |-> 2] >>,
   couriers |-> << [courier_id |-> 1], [courier_id |-> 2] >>,
   currencies |->
     << [currency_id |-> 1, currency_code |-> "AUD"],
        [currency_id |-> 2, currency_code |-> "INR"] >>,
   fx_rates |->
     << [fx_rate_id |-> 1, base_currency_id |-> 1, quote_currency_id |-> 2],
        [fx_rate_id |-> 2, base_currency_id |-> 2, quote_currency_id |-> 1] >>]

\* load_reference_ids: the id ranges of customers, outlets, menu items and
\* couriers (the brand range is read and not used).
load_reference_ids(st) ==
  [cust_lo |-> MinOf(Column(st.customers, "customer_id")),
   cust_hi |-> MaxOf(Column(st.customers, "customer_id")),
   outlet_lo |-> MinOf(Column(st.restaurant_outlets, "restaurant_id")),
   outlet_hi |-> MaxOf(Column(st.restaurant_outlets, "restaurant_id")),
   menu_lo |-> MinOf(Column(st.menu_items, "menu_item_id")),
   menu_hi |-> MaxOf(Column(st.menu_items, "menu_item_id")),
   courier_lo |-> MinOf(Column(st.couriers, "courier_id")),
   courier_hi |-> MaxOf(Column(st.couriers, "courier_id"))]

\* ORDER BY address_id of the addresses of one customer.
RECURSIVE OrderByAddressId(_)
OrderByAddressId(S) ==
  IF S = {} THEN << >>
  ELSE LET r == CHOOSE x \in S : \A y \in S : x.address_id <= y.address_id
       IN  <<r>> \o OrderByAddressId(S \ {r})

\* build_address_lookup: customer_id -> list of (address_id, country), for
\* the customers that have an address.
build_address_lookup(st) ==
  [c \in Column(st.customer_addresses, "customer_id") |->
     LET mine == OrderByAddressId({r \in Rows(st.customer_addresses) : r.customer_id = c})
     IN  [k \in 1..Len(mine) |->
            [address_id |-> mine[k].address_id, country |-> mine[k].country]]]

\* The currency_id of a currency code (insert_currencies_and_fx, lines 375-397).
CurrencyId(st, code) ==
  (CHOOSE r \in Rows(st.currencies) : r.currency_code = code).currency_id

\* What main hands to populate_orders_related, and what the latter reads
\* itself (lines 990-1003 and 604-609).
RefOf(st) ==
  LET r == load_reference_ids(st)
  IN  [cust_lo |-> r.cust_lo, cust_hi |-> r.cust_hi,
       outlet_lo |-> r.outlet_lo, outlet_hi |-> r.outlet_hi,
       menu_lo |-> r.menu_lo, menu_hi |-> r.menu_hi,
       courier_lo |-> r.courier_lo, courier_hi |-> r.courier_hi,
       aud_id |-> CurrencyId(st, "AUD"), inr_id |-> CurrencyId(st, "INR"),
       address_map |-> build_address_lookup(st)]

\* Reference data of a freshly loaded store.
RefData == RefOf(LoadedStore)

\* Lines 618-653: read the clock, validate the window, read MAX(order_id).
Begin ==
  /\ pc = "start"
  /\ now' = clock
  /\ IF EndTs(clock) <= StartTs(clock)
     THEN pc' = "ValueError" /\ UNCHANGED base_order_id
     ELSE pc' = "loop" /\ base_order_id' = MaxOrderId(db.orders)
  /\ i' = 0
  /\ buf' = EmptyBuffers
  /\ UNCHANGED <<clock, n_orders, chunk_rows, ref, db>>
  /\ UNCHANGED others
  /\ UNCHANGED aux
  /\ UNCHANGED flushed

\* Lines 655-771: one iteration of the loop with rng yielding the draws h and
\* tl, and the flush that ends it when the buffer has reached chunk_rows.
Iteration(h, tl) ==
  /\ pc = "loop"
  /\ i < n_orders
  /\ LET o == BuildOrder(base_order_id + i + 1, now, ref, h, tl)
         nb == AppendOrder(buf, o)
     IN  /\ made' = Append(made, o)
         /\ IF BufferFull(Len(nb.orders_rows), chunk_rows)
            THEN /\ db' = FlushOrdersBatch(db, seq, nb).db
                 /\ seq' = FlushOrdersBatch(db, seq, nb).seq
                 /\ calls' = Append(calls, [tables |-> db, seq |-> seq, batch |-> nb])
                 /\ buf' = EmptyBuffers
            ELSE /\ buf' = nb
                 /\ UNCHANGED <<db, seq, calls>>
  /\ i' = i + 1
  /\ UNCHANGED <<clock, n_orders, chunk_rows, ref, pc, now, base_order_id>>
  /\ UNCHANGED others
  /\ UNCHANGED aux

\* The iteration with rng free to yield any value of profile P.
Generate(P) ==
  /\ pc = "loop"
  /\ i < n_orders
  /\ \E h0 \in HeadDraws(P, ref, now) :
       /\ h0.customer_id \in DOMAIN ref.address_map
       /\ \E a \in 1..Len(ref.address_map[h0.customer_id]) :
            \E tl \in TailDraws(h0, P, ref) :
              Iteration(WithAddress(h0, a), tl)

\* Line 659 with rng yielding a customer_id that is no key of address_map:
\* address_map[customer_id] raises KeyError and the function is left.
GenerateKeyError(P) ==
  /\ pc = "loop"
  /\ i < n_orders
  /\ \E customer_id \in Sample(P.ids, ref.cust_lo, ref.cust_hi) :
       customer_id \notin DOMAIN ref.address_map
  /\ pc' = "KeyError"
  /\ UNCHANGED <<clock, n_orders, chunk_rows, ref, now, base_order_id, i, buf, db>>
  /\ UNCHANGED others
  /\ UNCHANGED aux
  /\ UNCHANGED flushed

\* Lines 773-774: the flush of the last, partial batch.
FinalFlush ==
  /\ pc = "loop"
  /\ i = n_orders
  /\ IF buf.orders_rows # << >>
     THEN /\ db' = FlushOrdersBatch(db, seq, buf).db
          /\ seq' = FlushOrdersBatch(db, seq, buf).seq
          /\ calls' = Append(calls, [tables |-> db, seq |-> seq, batch |-> buf])
     ELSE UNCHANGED <<db, seq, calls>>
  /\ pc' = "done"
  /\ UNCHANGED <<clock, n_orders, chunk_rows, ref, now, base_order_id, i, buf, made>>
  /\ UNCHANGED others
  /\ UNCHANGED aux

\* The batch load run again for the id range already loaded: the loop
\* restarts with the same base_order_id and generates rows anew.
Rerun ==
  /\ pc = "done"
  /\ reruns < MaxReruns
  /\ reruns' = reruns + 1
  /\ pc' = "loop"
  /\ i' = 0
  /\ buf' = EmptyBuffers
  /\ calls' = << >>
  /\ made' = << >>
  /\ UNCHANGED <<clock, n_orders, chunk_rows, ref, now, base_order_id, db, seq>>
  /\ UNCHANGED <<ga, go, seeded, customers, first>>
  /\ UNCHANGED aux

\* The program run again on what is stored (RESET_DB_BEFORE_LOAD is False):
\* populate_orders_related starts over and reads MAX(order_id) anew.  The
\* orders table is kept within MaxOrders rows.
NextRun ==
  /\ pc = "done"
  /\ Len(db.orders) + n_orders <= MaxOrders
  /\ pc' = "start"
  /\ i' = 0
  /\ buf' = EmptyBuffers
  /\ calls' = << >>
  /\ made' = << >>
  /\ UNCHANGED <<clock, n_orders, chunk_rows, ref, now, base_order_id, db, seq>>
  /\ UNCHANGED others
  /\ UNCHANGED aux

\* Lines 213-270: one iteration of the loop of gen_customer_addresses.
GenAddresses ==
  /\ ga.next <= ga.customer_id_end
  /\ \E r \in NAddrDraws :
       \E is_au_r \in RandomUnit :
         \E default_idx \in DefaultIdxChoices(NAddr(r)) :
           ga' = [ga EXCEPT
                    !.rows = @ \o AddressRows(ga.next, NAddr(r),
                                   IF Below(is_au_r, 550) THEN "Australia" ELSE "India",
                                   default_idx),
                    !.next = @ + 1]
  /\ UNCHANGED <<clock, n_orders, chunk_rows, ref, pc, now, base_order_id, i, buf, db>>
  /\ UNCHANGED <<reruns, go, seeded, customers, first>>
  /\ UNCHANGED aux
  /\ UNCHANGED flushed

\* Lines 302-316: the draws of one outlet and its first key.
OutletDraw ==
  /\ go.pc = "draw"
  /\ go.made < MaxOutlets
  /\ \E brand_id \in Ends(go.brand_id_start, go.brand_id_end) :
       \E is_au_r \in RandomUnit :
         \E name \in OutletNames :
           go' = [go EXCEPT
                    !.key = OutletKey(brand_id, name, OutletCity(is_au_r), 1),
                    !.redrawn = FALSE,
                    !.pc = "check"]
  /\ UNCHANGED <<clock, n_orders, chunk_rows, ref, pc, now, base_order_id, i, buf, db>>
  /\ UNCHANGED <<reruns, ga, seeded, customers, first>>
  /\ UNCHANGED aux
  /\ UNCHANGED flushed

\* Lines 317-319: one turn of the while loop, a new outlet_name for the key.
OutletRedraw ==
  /\ go.pc = "check"
  /\ KeyCollides(go.key, go.used_keys)
  /\ \E name \in OutletNames :
       go' = [go EXCEPT
                !.key = OutletKey(go.key[1], name, go.key[3], go.key[4]),
                !.redrawn = TRUE]
  /\ UNCHANGED <<clock, n_orders, chunk_rows, ref, pc, now, base_order_id, i, buf, db>>
  /\ UNCHANGED <<reruns, ga, seeded, customers, first>>
  /\ UNCHANGED aux
  /\ UNCHANGED flushed

\* Lines 320-322: the loop left, the key recorded and the row yielded.
OutletYield ==
  /\ go.pc = "check"
  /\ ~KeyCollides(go.key, go.used_keys)
  /\ go' = [go EXCEPT
              !.used_keys = @ \cup {go.key},
              !.rows = Append(@, [brand_id |-> go.key[1], outlet_name |-> go.key[2],
                                  city |-> go.key[3], delivery_zone |-> go.key[4]]),
              !.made = @ + 1,
              !.pc = "draw"]
  /\ UNCHANGED <<clock, n_orders, chunk_rows, ref, pc, now, base_order_id, i, buf, db>>
  /\ UNCHANGED <<reruns, ga, seeded, customers, first>>
  /\ UNCHANGED aux
  /\ UNCHANGED flushed

\* main, line 932: the customers loaded from gen_customers, which reads the
\* clock once; its draws are those the seed fixes.
LoadCustomers ==
  /\ pc = "main"
  /\ customers' = CustomerRows(clock, seeded.customers)
  /\ pc' = "start"
  /\ UNCHANGED <<clock, n_orders, chunk_rows, ref, now, base_order_id, i, buf, db>>
  /\ UNCHANGED <<reruns, ga, go, seeded, first>>
  /\ UNCHANGED aux
  /\ UNCHANGED flushed

\* The iteration with rng yielding what the seed fixes for it.
GenerateSeeded ==
  /\ pc = "loop"
  /\ i < n_orders
  /\ Iteration(seeded.orders[i + 1].h, seeded.orders[i + 1].tl)

\* The wall clock advances by a second.
Tick ==
  /\ clock < Clock0 + MaxTicks
  /\ clock' = clock + 1
  /\ UNCHANGED <<n_orders, chunk_rows, ref, pc, now, base_order_id, i, buf, db>>
  /\ UNCHANGED others
  /\ UNCHANGED aux
  /\ UNCHANGED flushed

\* A second, independent run with the same seed on a fresh target: the rows
\* of the first run are set aside and the tables are empty again.
SecondRun ==
  /\ pc = "done"
  /\ first = << >>
  /\ first' = << [customers |-> customers, db |-> db] >>
  /\ customers' = << >>
  /\ db' = EmptyTables
  /\ pc' = "main"
  /\ seq' = LoadedSeq
  /\ calls' = << >>
  /\ made' = << >>
  /\ UNCHANGED <<clock, n_orders, chunk_rows, ref, now, base_order_id, i, buf>>
  /\ UNCHANGED <<reruns, ga, go, seeded>>
  /\ UNCHANGED aux

(***************************************************************************)
(* main (lines 914-1014): one connection, opened with autocommit off in a  *)
(* with block, and the loads in the order of the source, each followed by  *)
(* conn.commit().  The rows a connection wrote since its last commit are   *)
(* in store and db only; durable holds what is committed.                  *)
(***************************************************************************)
\* The loads of main, in the order of the source.
MainSteps ==
  <<"customers", "customer_addresses", "restaurant_brands", "restaurant_outlets",
    "menu_items", "couriers", "fx_rates", "orders">>

\* range(lo, hi + 1) over the ids of a table read with SELECT min, max.
IdRange(tbl, col) == MinOf(Column(tbl, col))..MaxOf(Column(tbl, col))

\* The rows copy_rows loads into a table from its generator, with the serial
\* id the table's sequence gives each (last is the sequence's value).  The
\* generators' draws that decide no identifier are left out: one address per
\* customer, one menu item per outlet, every outlet of the first brand.
GenTable(table, st, last) ==
  CASE table = "customers" ->
         [k \in 1..MaxRows |-> [customer_id |-> last + k]]
    [] table = "customer_addresses" ->
         LET lo == MinOf(Column(st.customers, "customer_id"))
             n == Cardinality(IdRange(st.customers, "customer_id"))
         IN  [k \in 1..n |->
                [address_id |-> last + k, customer_id |-> lo + k - 1,
                 country |-> IF (lo + k - 1) % 2 = 1 THEN "Australia" ELSE "India"]]
    [] table = "restaurant_brands" ->
         [k \in 1..MaxRows |-> [brand_id |-> last + k]]
    [] table = "restaurant_outlets" ->
         [k \in 1..MaxRows |->
            [restaurant_id |-> last + k,
             brand_id |-> MinOf(Column(st.restaurant_brands, "brand_id"))]]
    [] table = "menu_items" ->
         LET lo == MinOf(Column(st.restaurant_outlets, "restaurant_id"))
             n == Cardinality(IdRange(st.restaurant_outlets, "restaurant_id"))
         IN  [k \in 1..n |-> [menu_item_id |-> last + k, restaurant_id |-> lo + k - 1]]
    [] table = "couriers" ->
         [k \in 1..MaxRows |-> [courier_id |-> last + k]]
    [] table = "fx_rates" ->
         << [fx_rate_id |-> last + 1, base_currency_id |-> CurrencyId(st, "AUD"),
             quote_currency_id |-> CurrencyId(st, "INR")],
            [fx_rate_id |-> last + 2, base_currency_id |-> CurrencyId(st, "INR"),
             quote_currency_id |-> CurrencyId(st, "AUD")] >>

\* INSERT INTO currencies of the codes that are not there yet (lines 381-395).
RECURSIVE InsertMissing(_, _, _)
InsertMissing(tbl, codes, last) ==
  IF codes = << >> THEN tbl
  ELSE IF Head(codes) \in Column(tbl, "currency_code")
       THEN InsertMissing(tbl, Tail(codes), last)
       ELSE InsertMissing(
              Append(tbl, [currency_id |-> last + 1, currency_code |-> Head(codes)]),
              Tail(codes), last + 1)

\* conn.commit(): what the connection wrote becomes durable.
Committed(st, tables) == [store |-> st, db |-> tables]

\* Mutant: the connection is opened with autocommit on, so that a failure
\* leaves what was written so far.
RolledBackNothing(d, st, tables) == Committed(st, tables)

\* The exception leaves the with block of the connection, which rolls the
\* open transaction back: the connection's view is the durable state again.
RolledBack(d, st, tables) == d

\* What main and populate_orders_related leave alone while a load of a
\* reference table proceeds.
loopvars == <<n_orders, chunk_rows, ref, pc, now, base_order_id, i, buf, db>>

\* Line 922: psycopg.connect(...) entered, and the search path set.
MainConnect ==
  /\ mn.pc = "connect"
  /\ \E reachable \in BOOLEAN :
       mn' = IF reachable
             THEN [mn EXCEPT !.pc = "open", !.step = 1, !.conn = "open"]
             ELSE [mn EXCEPT !.pc = "failed"]
  /\ UNCHANGED <<clock, window, store, durable, ex, tcall>>
  /\ UNCHANGED loopvars
  /\ UNCHANGED others
  /\ UNCHANGED flushed

\* insert_currencies_and_fx, lines 374-397: its cursor, and the two currencies.
InsertCurrencies ==
  /\ mn.pc = "insert"
  /\ store' = [store EXCEPT
                 !.currencies = InsertMissing(@, <<"AUD", "INR">>, seq.currencies)]
  /\ seq' = [seq EXCEPT !.currencies = @ + Len(store'.currencies) - Len(store.currencies)]
  /\ mn' = [mn EXCEPT !.pc = "open", !.cursors = @ + 1]
  /\ UNCHANGED <<clock, window, durable, ex, tcall, calls, made>>
  /\ UNCHANGED loopvars
  /\ UNCHANGED others

\* copy_rows, lines 117-118: the cursor and its COPY handle are opened.
CopyOpen ==
  /\ mn.pc = "open"
  /\ mn' = [mn EXCEPT !.pc = "write", !.cursors = @ + 1, !.copies = @ + 1]
  /\ UNCHANGED <<clock, window, store, durable, ex, tcall>>
  /\ UNCHANGED loopvars
  /\ UNCHANGED others
  /\ UNCHANGED flushed

\* copy_rows, lines 119-137: the rows of the generator are streamed.
CopyWrite ==
  /\ mn.pc = "write"
  /\ LET table == MainSteps[mn.step]
         rows == GenTable(table, store, seq[table])
     IN  /\ store' = [store EXCEPT ![table] = @ \o rows]
         /\ seq' = [seq EXCEPT ![table] = @ + Len(rows)]
  /\ mn' = [mn EXCEPT !.pc = "close"]
  /\ UNCHANGED <<clock, window, durable, ex, tcall, calls, made>>
  /\ UNCHANGED loopvars
  /\ UNCHANGED others

\* The with blocks of copy_rows are left: the COPY handle and the cursor are
\* closed, and so is the cursor of insert_currencies_and_fx on its return.
CopyClose ==
  /\ mn.pc = "close"
  /\ mn' = [mn EXCEPT !.pc = "commit", !.cursors = 0, !.copies = 0]
  /\ UNCHANGED <<clock, window, store, durable, ex, tcall>>
  /\ UNCHANGED loopvars
  /\ UNCHANGED others
  /\ UNCHANGED flushed

\* conn.commit() after a load; the orders step commits when
\* populate_orders_related has returned.
MainCommit ==
  /\ IF mn.pc = "orders" THEN pc = "done" ELSE mn.pc = "commit"
  /\ durable' = Committed(store, db)
  /\ mn' = [mn EXCEPT
              !.committed = mn.step,
              !.step = IF mn.step < Len(MainSteps) THEN mn.step + 1 ELSE mn.step,
              !.pc = IF mn.step = Len(MainSteps) THEN "leave"
                     ELSE IF MainSteps[mn.step + 1] = "fx_rates" THEN "insert"
                     ELSE IF MainSteps[mn.step + 1] = "orders" THEN "populate"
                     ELSE "open"]
  /\ UNCHANGED <<clock, window, store, ex, tcall>>
  /\ UNCHANGED loopvars
  /\ UNCHANGED others
  /\ UNCHANGED flushed

\* Lines 990-1003 and 604-609: the id ranges and the address lookup are
\* read, and populate_orders_related starts.
CallPopulate ==
  /\ mn.pc = "populate"
  /\ ref' = RefOf(store)
  /\ pc' = "start"
  /\ mn' = [mn EXCEPT !.pc = "orders"]
  /\ UNCHANGED <<clock, window, store, durable, ex, tcall>>
  /\ UNCHANGED <<n_orders, chunk_rows, now, base_order_id, i, buf, db>>
  /\ UNCHANGED others
  /\ UNCHANGED flushed

\* The with block of the connection is left normally: the connection is closed.
MainExit ==
  /\ mn.pc = "leave"
  /\ mn' = [mn EXCEPT !.pc = "exit", !.conn = "closed"]
  /\ UNCHANGED <<clock, window, store, durable, ex, tcall>>
  /\ UNCHANGED loopvars
  /\ UNCHANGED others
  /\ UNCHANGED flushed

\* An exception at the statement main is at (the ValueError of the window
\* check, or an error of the storage): the with blocks are left, the COPY
\* handle and the cursors are closed, the transaction is rolled back and the
\* connection closed.
MainRaise ==
  /\ mn.conn = "open"
  /\ mn.pc # "leave"
  /\ LET back == RolledBack(durable, store, db)
     IN  /\ store' = back.store
         /\ db' = back.db
         /\ durable' = back
  /\ mn' = [mn EXCEPT !.pc = "failed", !.conn = "closed", !.cursors = 0, !.copies = 0]
  /\ pc' = IF pc \in {"idle", "ValueError"} THEN pc ELSE "raised"
  /\ UNCHANGED <<clock, window, ex, tcall>>
  /\ UNCHANGED <<n_orders, chunk_rows, ref, now, base_order_id, i, buf>>
  /\ UNCHANGED others
  /\ UNCHANGED flushed

(***************************************************************************)
(* postgres_to_duckdb.py: a script of top-level statements on one DuckDB   *)
(* connection.                                                             *)
(***************************************************************************)
\* The statements executed on the connection (lines 14-124): a COPY ... TO
\* is named by the table it exports.
ExportStatements ==
  <<"INSTALL", "LOAD", "ATTACH",
    "customers", "customer_addresses", "restaurant_brands", "restaurant_outlets",
    "menu_items", "couriers", "delivery_assignments", "ratings", "currencies",
    "orders", "order_items", "order_status_events", "refunds", "fx_rates">>

\* Line 13: conn = duckdb.connect(), once the generation script has ended.
ExportConnect ==
  /\ ex.pc = "idle"
  /\ mn.pc \in {"exit", "failed"}
  /\ ex' = [ex EXCEPT !.pc = "run", !.at = 1, !.conn = "open"]
  /\ UNCHANGED <<clock, window, store, durable, mn, tcall>>
  /\ UNCHANGED loopvars
  /\ UNCHANGED others
  /\ UNCHANGED flushed

\* conn.execute(...) of the next statement returns.
ExportExecute ==
  /\ ex.pc = "run"
  /\ ex.at <= Len(ExportStatements)
  /\ ex' = [ex EXCEPT
              !.at = @ + 1,
              !.written = IF ex.at > 3 THEN @ \cup {ExportStatements[ex.at]} ELSE @]
  /\ UNCHANGED <<clock, window, store, durable, mn, tcall>>
  /\ UNCHANGED loopvars
  /\ UNCHANGED others
  /\ UNCHANGED flushed

\* conn.execute(...) of the next statement raises: no handler and no with
\* block encloses it, so the script ends there.
ExportRaise ==
  /\ ex.pc = "run"
  /\ ex.at <= Len(ExportStatements)
  /\ ex' = [ex EXCEPT !.pc = "failed"]
  /\ UNCHANGED <<clock, window, store, durable, mn, tcall>>
  /\ UNCHANGED loopvars
  /\ UNCHANGED others
  /\ UNCHANGED flushed

\* Line 126: conn.close().
ExportClose ==
  /\ ex.pc = "run"
  /\ ex.at = Len(ExportStatements) + 1
  /\ ex' = [ex EXCEPT !.pc = "exit", !.conn = "closed"]
  /\ UNCHANGED <<clock, window, store, durable, mn, tcall>>
  /\ UNCHANGED loopvars
  /\ UNCHANGED others
  /\ UNCHANGED flushed

(***************************************************************************)
(* The timeline builders called on their own, with any placed_at and now.  *)
(***************************************************************************)
\* placed_at minus now, in minutes: long before now, 107 and 30 minutes
\* before it (the longest delivered and canceled timelines), around
\* latest_allowed = now - 1 minute, at now and after it.
PlacedOffsets == {0 - 600, 0 - 107, 0 - 30, 0 - 2, 0 - 1, 0, 5}

\* build_order_timeline_delivered(rng, placed_at, now) called and returned.
CallDelivered(P) ==
  /\ tcall.fn = "none"
  /\ \E off \in PlacedOffsets :
         \E d \in TimelineDraws(P) :
           /\ tcall' = [fn |-> "delivered", placed_at |-> clock + Minutes(off), now |-> clock,
                         result |-> build_order_timeline_delivered(d, clock + Minutes(off), clock)]
           /\ UNCHANGED <<clock, window, store, durable, mn, ex>>
           /\ UNCHANGED loopvars
           /\ UNCHANGED others
           /\ UNCHANGED flushed

\* build_order_timeline_canceled(rng, placed_at, now) called and returned.
CallCanceled(P) ==
  /\ tcall.fn = "none"
  /\ \E off \in PlacedOffsets :
         \E cancel \in Sample(P.time, 2, 30) :
           /\ tcall' = [fn |-> "canceled", placed_at |-> clock + Minutes(off), now |-> clock,
                         result |-> build_order_timeline_canceled(cancel, clock + Minutes(off), clock)]
           /\ UNCHANGED <<clock, window, store, durable, mn, ex>>
           /\ UNCHANGED loopvars
           /\ UNCHANGED others
           /\ UNCHANGED flushed

\* An earlier run drew values from the sequences of the order tables and
\* failed: its rows were rolled back, the sequences stay where it left them.
RolledBackEarlier ==
  /\ pc = "start"
  /\ seq = LoadedSeq
  /\ \E ahead \in 1..MaxOrders :
       seq' = [t \in DOMAIN seq |->
                 IF t \in DOMAIN EmptyTables THEN seq[t] + ahead ELSE seq[t]]
  /\ UNCHANGED <<clock, calls, made>>
  /\ UNCHANGED loopvars
  /\ UNCHANGED others
  /\ UNCHANGED aux

(***************************************************************************)
(* Profiles and specifications.                                            *)
(***************************************************************************)
\* Every decision both ways, every range at its lower end.
Coarse ==
  [items |-> "low", money |-> "low", time |-> "low", extra |-> "low",
   ids |-> "low", refund |-> RandomUnit, rating |-> RandomUnit, detail |-> {0}]

\* The item count and the money draws varied.
Money ==
  [items |-> "ends", money |-> "ends", time |-> "low", extra |-> "low",
   ids |-> "low", refund |-> {999}, rating |-> {999}, detail |-> {0}]

\* The timeline draws varied.
Time ==
  [items |-> "low", money |-> "low", time |-> "ends", extra |-> "low",
   ids |-> "low", refund |-> {999}, rating |-> {999}, detail |-> {0}]

\* The refund draws varied, over the totals of one-item orders.
Refunds ==
  [items |-> "low", money |-> "ends", time |-> "low", extra |-> "ends",
   ids |-> "low", refund |-> RandomUnit, rating |-> {999}, detail |-> {0}]

\* The generators not running.
IdleAddresses == [customer_id_start |-> 1, customer_id_end |-> 0, next |-> 1, rows |-> << >>]
IdleOutlets ==
  [brand_id_start |-> 1, brand_id_end |-> 0, pc |-> "idle", made |-> 0,
   used_keys |-> {}, key |-> << >>, redrawn |-> FALSE, rows |-> << >>]

\* The window as configured in the source (lines 51-52).
DefaultWindow == [days |-> ORDERS_DAYS, hours |-> SAFETY_BUFFER_HOURS]

\* main, the export script and the timeline builders not running.
IdleMain ==
  [pc |-> "idle", step |-> 0, conn |-> "none", cursors |-> 0, copies |-> 0,
   committed |-> 0]
IdleExport == [pc |-> "idle", at |-> 0, conn |-> "none", written |-> {}]
IdleTimeline == [fn |-> "none"]

\* The reference data already loaded and committed, the window as configured.
InitLoaded ==
  /\ window = DefaultWindow
  /\ store = LoadedStore
  /\ durable = [store |-> LoadedStore, db |-> EmptyTables]
  /\ mn = IdleMain
  /\ ex = IdleExport
  /\ seq = LoadedSeq
  /\ calls = << >>
  /\ made = << >>
  /\ tcall = IdleTimeline

InitRun(N, C) ==
  /\ InitLoaded
  /\ clock = Clock0
  /\ n_orders \in N
  /\ chunk_rows \in C
  /\ ref = RefData
  /\ pc = "start"
  /\ now = 0
  /\ base_order_id = 0
  /\ i = 0
  /\ buf = EmptyBuffers
  /\ db = EmptyTables
  /\ reruns = 0
  /\ ga = IdleAddresses
  /\ go = IdleOutlets
  /\ seeded = << >>
  /\ customers = << >>
  /\ first = << >>

\* The whole loop, for every N_ORDERS and CHUNK_ROWS within the bounds.
Init == InitRun(1..MaxOrders, 1..MaxChunk)

Next ==
  \/ Begin
  \/ Generate(Coarse)
  \/ FinalFlush

Spec == Init /\ [][Next]_vars

\* One order, its batch flushed by the final flush.
InitOne == InitRun({1}, {MaxChunk})

NextTotals ==
  \/ Begin
  \/ Generate(Money)
  \/ FinalFlush

SpecTotals == InitOne /\ [][NextTotals]_vars

NextTimeline ==
  \/ Begin
  \/ Generate(Time)
  \/ FinalFlush

SpecTimeline == InitOne /\ [][NextTimeline]_vars

NextRefunds ==
  \/ Begin
  \/ Generate(Refunds)
  \/ FinalFlush

SpecRefunds == InitOne /\ [][NextRefunds]_vars

\* The batch load and its re-runs, orders delivered or canceled.
Plain ==
  [items |-> "low", money |-> "low", time |-> "low", extra |-> "low",
   ids |-> "low", refund |-> {999}, rating |-> {999}, detail |-> {0}]

NextFlush ==
  \/ Begin
  \/ Generate(Plain)
  \/ FinalFlush
  \/ Rerun

SpecFlush == Init /\ [][NextFlush]_vars

\* populate_orders_related not running.
InitIdle ==
  /\ InitLoaded
  /\ clock = Clock0
  /\ n_orders = 0
  /\ chunk_rows = 1
  /\ ref = RefData
  /\ pc = "idle"
  /\ now = 0
  /\ base_order_id = 0
  /\ i = 0
  /\ buf = EmptyBuffers
  /\ db = EmptyTables
  /\ reruns = 0
  /\ seeded = << >>
  /\ customers = << >>
  /\ first = << >>

\* gen_customer_addresses over the ids of MaxCustomers customers.
InitAddresses ==
  /\ InitIdle
  /\ go = IdleOutlets
  /\ \E start \in {1, 4} :
       ga = [customer_id_start |-> start, customer_id_end |-> start + MaxCustomers - 1,
             next |-> start, rows |-> << >>]

SpecAddresses == InitAddresses /\ [][GenAddresses]_vars

\* gen_outlets over two brands.
InitOutlets ==
  /\ InitIdle
  /\ ga = IdleAddresses
  /\ go = [brand_id_start |-> 1, brand_id_end |-> 2, pc |-> "draw", made |-> 0,
           used_keys |-> {}, key |-> << >>, redrawn |-> FALSE, rows |-> << >>]

NextOutlets ==
  \/ OutletDraw
  \/ OutletRedraw
  \/ OutletYield

SpecOutlets == InitOutlets /\ [][NextOutlets]_vars

\* The draws random.Random(seed) can yield for the customers.
CustomerDraws == [phone_r : RandomUnit, minutes : Low(0, 365 * 2 * 24 * 60)]

\* The values rng can yield in one iteration under profile P: the head draws,
\* the address choice and the draws of the branch taken.
OrderDraws(P, rf, t) ==
  UNION {UNION {{[h |-> WithAddress(h0, a), tl |-> tl] : tl \in TailDraws(h0, P, rf)} :
                  a \in 1..Len(rf.address_map[h0.customer_id])} :
           h0 \in HeadDraws(P, rf, t)}

\* Two runs of main with the same seed: the seed fixes the stream of draws,
\* which is any stream, and the same one in both runs.
InitRuns ==
  /\ InitLoaded
  /\ clock = Clock0
  /\ n_orders = 1
  /\ chunk_rows = MaxChunk
  /\ ref = RefData
  /\ pc = "main"
  /\ now = 0
  /\ base_order_id = 0
  /\ i = 0
  /\ buf = EmptyBuffers
  /\ db = EmptyTables
  /\ reruns = 0
  /\ ga = IdleAddresses
  /\ go = IdleOutlets
  /\ seeded \in [customers : [1..MaxCustomers -> CustomerDraws],
                 orders : [1..1 -> OrderDraws(Coarse, RefData, Clock0)]]
  /\ customers = << >>
  /\ first = << >>

NextRuns ==
  \/ LoadCustomers
  \/ Begin
  \/ GenerateSeeded
  \/ FinalFlush
  \/ Tick
  \/ SecondRun

SpecRuns == InitRuns /\ [][NextRuns]_vars

\* Configurations of the window: the one of the source, and two with
\* end_ts <= start_ts (end_ts = start_ts, and end_ts before start_ts).
Windows ==
  {DefaultWindow, [days |-> 1, hours |-> 24], [days |-> 0, hours |-> SAFETY_BUFFER_HOURS]}

\* main started on an empty schema, then the export script.
InitMain ==
  /\ clock = Clock0
  /\ n_orders \in 1..MaxOrders
  /\ chunk_rows \in 1..MaxChunk
  /\ ref = << >>
  /\ pc = "idle"
  /\ now = 0
  /\ base_order_id = 0
  /\ i = 0
  /\ buf = EmptyBuffers
  /\ db = EmptyTables
  /\ reruns = 0
  /\ ga = IdleAddresses
  /\ go = IdleOutlets
  /\ seeded = << >>
  /\ customers = << >>
  /\ first = << >>
  /\ window \in Windows
  /\ store = EmptyStore
  /\ durable = Committed(EmptyStore, EmptyTables)
  /\ mn = [IdleMain EXCEPT !.pc = "connect"]
  /\ ex = IdleExport
  /\ seq = EmptySeq
  /\ calls = << >>
  /\ made = << >>
  /\ tcall = IdleTimeline

NextMain ==
  \/ MainConnect
  \/ CopyOpen
  \/ CopyWrite
  \/ CopyClose
  \/ MainCommit
  \/ InsertCurrencies
  \/ CallPopulate
  \/ Begin
  \/ Generate(Plain)
  \/ FinalFlush
  \/ MainExit
  \/ MainRaise
  \/ ExportConnect
  \/ ExportExecute
  \/ ExportRaise
  \/ ExportClose

SpecMain == InitMain /\ [][NextMain]_vars

\* The builders called with any of the placed_at above.
InitBuilders ==
  /\ InitIdle
  /\ ga = IdleAddresses
  /\ go = IdleOutlets

NextBuilders ==
  \/ CallDelivered(Time)
  \/ CallCanceled(Time)

SpecBuilders == InitBuilders /\ [][NextBuilders]_vars

\* The identifier draws varied.
Ids ==
  [items |-> "low", money |-> "low", time |-> "low", extra |-> "low",
   ids |-> "ends", refund |-> {999}, rating |-> {999}, detail |-> {0}]

\* Storage with identifiers that are not consecutive: a courier, a customer
\* with its address, a menu item or an outlet with identifier 3 in place of 2.
CourierGap ==
  [LoadedStore EXCEPT !.couriers = << [courier_id |-> 1], [courier_id |-> 3] >>]

CustomerGap ==
  [LoadedStore EXCEPT
     !.customers = << [customer_id |-> 1], [customer_id |-> 3] >>,
     !.customer_addresses =
       << [address_id |-> 1, customer_id |-> 1, country |-> "Australia"],
          [address_id |-> 2, customer_id |-> 3, country |-> "India"],
          [address_id |-> 3, customer_id |-> 3, country |-> "India"] >>]

MenuGap ==
  [LoadedStore EXCEPT
     !.menu_items = << [menu_item_id |-> 1, restaurant_id |-> 1],
                       [menu_item_id |-> 3, restaurant_id |-> 2] >>]

OutletGap ==
  [LoadedStore EXCEPT
     !.restaurant_outlets = << [restaurant_id |-> 1, brand_id |-> 1],
                               [restaurant_id |-> 3, brand_id |-> 1] >>,
     !.menu_items = << [menu_item_id |-> 1, restaurant_id |-> 1],
                       [menu_item_id |-> 2, restaurant_id |-> 3] >>]

Stores == {LoadedStore, CourierGap, CustomerGap, MenuGap, OutletGap}

\* One order generated over each of the stores, flushed by the loop or by the
\* final flush.
InitRefs ==
  /\ window = DefaultWindow
  /\ store \in Stores
  /\ durable = [store |-> store, db |-> EmptyTables]
  /\ mn = IdleMain
  /\ ex = IdleExport
  /\ seq = LoadedSeq
  /\ calls = << >>
  /\ made = << >>
  /\ tcall = IdleTimeline
  /\ clock = Clock0
  /\ n_orders = 1
  /\ chunk_rows \in 1..MaxChunk
  /\ ref = RefOf(store)
  /\ pc = "start"
  /\ now = 0
  /\ base_order_id = 0
  /\ i = 0
  /\ buf = EmptyBuffers
  /\ db = EmptyTables
  /\ reruns = 0
  /\ ga = IdleAddresses
  /\ go = IdleOutlets
  /\ seeded = << >>
  /\ customers = << >>
  /\ first = << >>

NextRefs ==
  \/ Begin
  \/ Generate(Ids)
  \/ GenerateKeyError(Ids)
  \/ FinalFlush

SpecRefs == InitRefs /\ [][NextRefs]_vars

\* The loop for every N_ORDERS from none and every CHUNK_ROWS, on empty
\* storage and on storage that holds the orders of earlier runs.
InitLoop == InitRun(0..MaxOrders, 1..MaxChunk)

NextLoop ==
  \/ Begin
  \/ Generate(Coarse)
  \/ FinalFlush
  \/ NextRun

SpecLoop == InitLoop /\ [][NextLoop]_vars

\* The batch load on sequences that are aligned or ahead of the tables.
NextSequences ==
  \/ RolledBackEarlier
  \/ Begin
  \/ Generate(Coarse)
  \/ FinalFlush

SpecSequences == Init /\ [][NextSequences]_vars

(***************************************************************************)
(* Properties.                                                             *)
(***************************************************************************)
\* The rows of s that belong to order id, in the order of s.
OfOrder(s, id) == SelectSeq(s, LAMBDA r : r.order_id = id)

\* The orders generated so far and, for each place they are held in (the
\* buffers, the tables), the rows held with them.
Held ==
  { [orders |-> buf.orders_rows, items |-> buf.order_items_rows,
     events |-> buf.events_rows, assignments |-> buf.assignments_rows,
     refunds |-> buf.refunds_rows, ratings |-> buf.ratings_rows],
    [orders |-> db.orders, items |-> db.order_items,
     events |-> db.order_status_events, assignments |-> db.delivery_assignments,
     refunds |-> db.refunds, ratings |-> db.ratings] }

AllOrders == UNION {Rows(h.orders) : h \in Held}

\* C1: every order row has total_amount = subtotal + tax + delivery_fee -
\* discount (in cents), total_amount >= 0, and a discount that does not exceed
\* subtotal + tax + delivery_fee.
C1_TotalConsistent ==
  \A o \in AllOrders :
    /\ o.total_amount = o.subtotal + o.tax + o.delivery_fee - o.discount
    /\ o.total_amount >= 0
    /\ o.discount <= o.subtotal + o.tax + o.delivery_fee

\* An order of MaxItems items with the largest discount draw is stored.
C1_Witness ==
  \E o \in Rows(db.orders) :
    /\ o.discount > 0
    /\ o.tax > 0
    /\ Len(OfOrder(db.order_items, o.order_id)) = Min(5, MaxItems)

\* C6: every order_items row has line_total = quantity * unit_price; an
\* order's subtotal is the sum of the line totals of the order_items rows
\* written for it, and its total_amount is that sum plus tax plus delivery fee
\* minus discount; every order has at least one such row and every
\* order_items row belongs to an order held with it.
C6_ItemsSumToTotal ==
  \A h \in Held :
    /\ \A it \in Rows(h.items) :
         /\ it.line_total = it.quantity * it.unit_price
         /\ HasOrder(h.orders, it.order_id)
    /\ \A o \in Rows(h.orders) :
         LET its == OfOrder(h.items, o.order_id)
             sum == SumSeq([k \in 1..Len(its) |-> its[k].line_total])
         IN  /\ Len(its) >= 1
             /\ o.subtotal = sum
             /\ o.total_amount = sum + o.tax + o.delivery_fee - o.discount

\* A stored order with several items, one of them bought more than once.
C6_Witness ==
  \E o \in Rows(db.orders) :
    LET its == OfOrder(db.order_items, o.order_id)
    IN  /\ Len(its) >= 2
        /\ \E k \in 1..Len(its) : its[k].quantity > 1
        /\ o.subtotal > its[1].line_total

\* C2: the timestamps of an order's status events, in the order in which they
\* are emitted, are strictly increasing.
C2_EventsIncreasing ==
  \A h \in Held :
    \A o \in Rows(h.orders) :
      LET ev == OfOrder(h.events, o.order_id)
      IN  \A k \in 1..(Len(ev) - 1) : ev[k].event_ts < ev[k + 1].event_ts

\* A stored delivered order whose PICKED_UP draw fell on or before pickup_eta,
\* so that ensure_after moved it to one minute after pickup_eta.
C2_Witness ==
  \E a \in Rows(db.delivery_assignments) :
    \E e \in Rows(db.order_status_events) :
      /\ e.order_id = a.order_id
      /\ e.status = "PICKED_UP"
      /\ e.event_ts = a.pickup_eta + Minutes(1)

\* The terminal event of each order held.
FinalEvents ==
  UNION {{[order |-> o, event |-> Last(OfOrder(h.events, o.order_id))] :
            o \in Rows(h.orders)} : h \in Held}

\* C3 as stated: the final status event of every order is at most now minus
\* SAFETY_BUFFER_HOURS.
C3_FinalWithinSafetyBuffer ==
  \A f \in FinalEvents : f.event.event_ts <= now - Hours(SAFETY_BUFFER_HOURS)

\* C3 amended: the safety buffer bounds the PLACED timestamp; the final event
\* comes at most 107 minutes after it and is at most now minus one minute.
C3_FinalWithinOneMinute ==
  \A f \in FinalEvents :
    /\ f.order.order_placed_at <= now - Hours(SAFETY_BUFFER_HOURS)
    /\ f.event.event_ts <= f.order.order_placed_at + Minutes(107)
    /\ f.event.event_ts <= now - Minutes(1)

\* A stored order placed at the very end of the window, delivered 107 minutes later.
C3_Witness ==
  \E f \in FinalEvents :
    /\ f.order \in Rows(db.orders)
    /\ f.order.order_placed_at = now - Hours(SAFETY_BUFFER_HOURS)
    /\ f.event.status = "DELIVERED"
    /\ f.event.event_ts = f.order.order_placed_at + Minutes(107)

StatusesOf(ev) == [k \in 1..Len(ev) |-> ev[k].status]

DELIVERED_STATUSES ==
  <<"PLACED", "ACCEPTED", "PREP_START", "READY_FOR_PICKUP", "PICKED_UP", "DELIVERED">>
CANCELED_STATUSES == <<"PLACED", "CANCELED">>

\* C4: the statuses of an order's events are exactly PLACED, ACCEPTED,
\* PREP_START, READY_FOR_PICKUP, PICKED_UP, DELIVERED or exactly PLACED,
\* CANCELED, and every status event belongs to an order held with it.
C4_StatusMachine ==
  \A h \in Held :
    /\ \A o \in Rows(h.orders) :
         StatusesOf(OfOrder(h.events, o.order_id))
           \in {DELIVERED_STATUSES, CANCELED_STATUSES}
    /\ \A e \in Rows(h.events) : HasOrder(h.orders, e.order_id)

\* A delivered and a canceled order are stored, and a third order is buffered.
C4_Witness ==
  /\ \E e \in Rows(db.order_status_events) : e.status = "DELIVERED"
  /\ \E e \in Rows(db.order_status_events) : e.status = "CANCELED"
  /\ buf.events_rows # << >>

\* C5: every refund row has refund_ts later than the DELIVERED event of its
\* order and refund_amount at most the order's total_amount.
C5_RefundAfterDelivery ==
  \A h \in Held :
    \A r \in Rows(h.refunds) :
      /\ \E e \in Rows(h.events) :
           e.order_id = r.order_id /\ e.status = "DELIVERED"
      /\ \A e \in Rows(h.events) :
           (e.order_id = r.order_id /\ e.status = "DELIVERED")
             => r.refund_ts > e.event_ts
      /\ \E o \in Rows(h.orders) : o.order_id = r.order_id
      /\ \A o \in Rows(h.orders) :
           o.order_id = r.order_id => r.refund_amount <= o.total_amount

\* A stored refund of the largest share (80%) of a discounted order's total.
C5_Witness ==
  \E r \in Rows(db.refunds) :
    \E o \in Rows(db.orders) :
      /\ o.order_id = r.order_id
      /\ o.discount > 0
      /\ r.refund_amount = qround(o.total_amount * 800, 1000)

\* C8: every customer whose iteration of gen_customer_addresses is over has
\* between 1 and 3 address rows, exactly one of them with is_default, and no
\* row is yielded for any other customer.
C8_OneDefaultAddress ==
  /\ \A c \in ga.customer_id_start..(ga.next - 1) :
       LET mine == {k \in 1..Len(ga.rows) : ga.rows[k].customer_id = c}
       IN  /\ Cardinality(mine) \in 1..3
           /\ Cardinality({k \in mine : ga.rows[k].is_default}) = 1
  /\ \A k \in 1..Len(ga.rows) :
       ga.rows[k].customer_id \in ga.customer_id_start..(ga.next - 1)

\* The generator is exhausted and some customer got three addresses, the last
\* of them the default one.
C8_Witness ==
  /\ ga.next = ga.customer_id_end + 1
  /\ \E k \in 1..Len(ga.rows) : ga.rows[k].line_1 = 3 /\ ga.rows[k].is_default
  /\ \E k \in 1..Len(ga.rows) : ga.rows[k].line_1 = 2 /\ ~ga.rows[k].is_default

\* C9: the rows yielded by gen_outlets have pairwise distinct (brand_id,
\* outlet_name, city, delivery_zone) keys, each recorded in used_keys, and the
\* loop is left for the yield only with an unused key.
C9_OutletKeysDistinct ==
  /\ \A j, k \in 1..Len(go.rows) :
       (go.rows[j].brand_id = go.rows[k].brand_id
        /\ go.rows[j].outlet_name = go.rows[k].outlet_name
        /\ go.rows[j].city = go.rows[k].city
        /\ go.rows[j].delivery_zone = go.rows[k].delivery_zone) => j = k
  /\ Cardinality(go.used_keys) = Len(go.rows)
  /\ Len(go.rows) = go.made

\* All outlets are yielded, the last after its name was redrawn.
C9_Witness ==
  /\ go.made = MaxOutlets
  /\ go.pc = "draw"
  /\ go.redrawn

\* C10: the orders table never holds two rows with the same order_id, and a
\* row once in the table stays as first loaded, through every flush, also
\* when flushes come again with order_ids already present.
C10_FlushIdempotent ==
  /\ [](\A j, k \in 1..Len(db.orders) :
          db.orders[j].order_id = db.orders[k].order_id => j = k)
  /\ [][/\ Len(db.orders') >= Len(db.orders)
        /\ \A k \in 1..Len(db.orders) : db.orders'[k] = db.orders[k]]_vars

\* The batch load ran again to its end with rows that differ from those
\* first loaded: the child rows are there twice, the orders once.
C10_Witness ==
  /\ reruns = 1
  /\ pc = "done"
  /\ Len(db.orders) = n_orders
  /\ n_orders = MaxOrders
  /\ \E e \in Rows(db.order_status_events) :
       /\ e.status = "CANCELED"
       /\ \E o \in Rows(db.orders) :
            o.order_id = e.order_id /\ o.payment_status = "PAID"

\* C11: an order has a delivery_assignments row exactly when it is delivered
\* (its events end with DELIVERED), and then exactly one; refunds and ratings
\* rows belong to delivered orders only, so a canceled order has no
\* delivery_assignments, refunds or ratings row.
C11_DependentsOnlyIfDelivered ==
  \A h \in Held :
    \A o \in Rows(h.orders) :
      LET delivered == Last(OfOrder(h.events, o.order_id)).status = "DELIVERED"
          canceled == Last(OfOrder(h.events, o.order_id)).status = "CANCELED"
      IN  /\ delivered # canceled
          /\ Len(OfOrder(h.assignments, o.order_id)) = (IF delivered THEN 1 ELSE 0)
          /\ canceled => /\ OfOrder(h.refunds, o.order_id) = << >>
                          /\ OfOrder(h.ratings, o.order_id) = << >>
          /\ Len(OfOrder(h.refunds, o.order_id)) <= 1
          /\ Len(OfOrder(h.ratings, o.order_id)) <= 1

\* A canceled order and a delivered order with its assignment, a refund and a
\* rating are stored.
C11_Witness ==
  /\ \E e \in Rows(db.order_status_events) : e.status = "CANCELED"
  /\ \E a \in Rows(db.delivery_assignments) :
       /\ \E r \in Rows(db.refunds) : r.order_id = a.order_id
       /\ \E g \in Rows(db.ratings) : g.order_id = a.order_id

\* The tables a step of main writes.
StepTables(k) ==
  IF MainSteps[k] = "fx_rates" THEN {"currencies", "fx_rates"}
  ELSE IF MainSteps[k] = "orders" THEN DOMAIN EmptyTables
  ELSE {MainSteps[k]}

\* The rows of a table in a state of the storage (reference or order table).
TableOf(d, t) == IF t \in DOMAIN EmptyTables THEN d.db[t] ELSE d.store[t]

\* C12 as stated: when the window is invalid (end_ts <= start_ts), no row of
\* any entity is ever generated or written: the connection's view and the
\* committed storage stay empty, up to and after the error.
C12_FailsBeforeAnyRow ==
  (mn.pc # "idle" /\ EndTs(clock) <= StartTs(clock))
    => /\ store = EmptyStore
       /\ db = EmptyTables
       /\ durable = Committed(EmptyStore, EmptyTables)

\* C13: at every point of a run of main, failed or not, the committed
\* storage holds the rows of every step committed so far and no row of a
\* later step (the one under way or failed included, whatever it has already
\* written or flushed); and the committed rows of a table never change.
C13_StepsAtomic ==
  /\ [](\A k \in 1..Len(MainSteps) :
          \A t \in StepTables(k) :
            IF k <= mn.committed
            THEN /\ TableOf(durable, t) # << >> \/ t \in {"delivery_assignments", "refunds", "ratings"}
                 /\ t = "orders" => Len(durable.db.orders) = n_orders
            ELSE TableOf(durable, t) = << >>)
  /\ [][\A k \in 1..mn.committed :
          \A t \in StepTables(k) : TableOf(durable', t) = TableOf(durable, t)]_vars

\* The run failed in the orders step after a batch had been flushed: the
\* reference tables are there, the order tables are empty.
C13_Witness ==
  /\ mn.pc = "failed"
  /\ mn.committed = Len(MainSteps) - 1
  /\ pc = "raised"
  /\ i >= chunk_rows
  /\ durable.db = EmptyTables
  /\ db = EmptyTables
  /\ durable.store.couriers # << >>

\* C14 as stated: when either script has ended, normally or with an error,
\* no connection, cursor or COPY handle it opened is still open.
C14_HandlesReleased ==
  /\ mn.pc \in {"exit", "failed"}
       => (mn.conn # "open" /\ mn.cursors = 0 /\ mn.copies = 0)
  /\ ex.pc \in {"exit", "failed"} => ex.conn # "open"

\* C15 as stated: for every placed_at and now, the events a timeline builder
\* returns have strictly increasing timestamps.
C15_BuilderEventsIncreasing ==
  tcall.fn # "none"
    => \A k \in 1..(Len(tcall.result.events) - 1) :
         tcall.result.events[k].event_ts < tcall.result.events[k + 1].event_ts

\* The timestamps a builder computes, the PLACED one left out.
ComputedTimestamps ==
  IF tcall.fn = "delivered"
  THEN {tcall.result.events[k].event_ts : k \in 2..Len(tcall.result.events)}
         \cup {tcall.result.assigned_at, tcall.result.pickup_eta,
               tcall.result.dropoff_eta, tcall.result.delivered_ts}
  ELSE IF tcall.fn = "canceled"
  THEN {tcall.result.events[2].event_ts, tcall.result.canceled_ts}
  ELSE {}

\* C16: for every placed_at and now, every timestamp a builder computes,
\* other than the PLACED one, is at most now minus one minute in the result
\* it returns, so also where the repair pass moved it.
C16_ComputedWithinOneMinute ==
  \A ts \in ComputedTimestamps : ts <= tcall.now - Minutes(1)

\* A delivered timeline placed after latest_allowed: every computed timestamp
\* was clamped, went through the repair and came out at latest_allowed.
C16_Witness ==
  /\ tcall.fn = "delivered"
  /\ tcall.placed_at > LatestAllowed(tcall.now)
  /\ ComputedTimestamps = {LatestAllowed(tcall.now)}

\* The tables whose rows refer to an order.
ChildTables ==
  {"order_items", "order_status_events", "delivery_assignments", "refunds", "ratings"}

\* Every row refers to rows that are there: the foreign keys among the
\* reference tables st and the order tables.
ParentsPresent(st, tables) ==
  /\ Column(st.customer_addresses, "customer_id") \subseteq Column(st.customers, "customer_id")
  /\ Column(st.restaurant_outlets, "brand_id") \subseteq Column(st.restaurant_brands, "brand_id")
  /\ Column(st.menu_items, "restaurant_id") \subseteq Column(st.restaurant_outlets, "restaurant_id")
  /\ Column(st.fx_rates, "base_currency_id") \cup Column(st.fx_rates, "quote_currency_id")
       \subseteq Column(st.currencies, "currency_id")
  /\ Column(tables.orders, "customer_id") \subseteq Column(st.customers, "customer_id")
  /\ Column(tables.orders, "delivery_address_id")
       \subseteq Column(st.customer_addresses, "address_id")
  /\ Column(tables.orders, "restaurant_id") \subseteq Column(st.restaurant_outlets, "restaurant_id")
  /\ Column(tables.orders, "currency_id") \subseteq Column(st.currencies, "currency_id")
  /\ Column(tables.order_items, "menu_item_id") \subseteq Column(st.menu_items, "menu_item_id")
  /\ Column(tables.delivery_assignments, "courier_id") \subseteq Column(st.couriers, "courier_id")
  /\ \A t \in ChildTables :
       Column(tables[t], "order_id") \subseteq Column(tables.orders, "order_id")

\* C17: in every call of _flush_orders_batch, after each statement every
\* child row in storage refers to an order that is in the orders table, and
\* once a child row of the batch is written all orders of the batch are in
\* the orders table; the storage the loop goes on with is the one the call
\* left.  And at every point of main every row, in the connection's view and
\* in the committed storage, refers to parent rows that are already there.
C17_ParentsBeforeChildren ==
  /\ \A n \in 1..Len(calls) :
       LET c == calls[n]
           tr == FlushTrace(c.tables, c.seq, c.batch)
       IN  /\ \A k \in 1..Len(tr) :
                /\ \A t \in ChildTables :
                     Column(tr[k].db[t], "order_id") \subseteq Column(tr[k].db.orders, "order_id")
                /\ (\E t \in ChildTables : tr[k].db[t] # c.tables[t])
                     => Column(c.batch.orders_rows, "order_id")
                          \subseteq Column(tr[k].db.orders, "order_id")
           /\ (n = Len(calls) /\ pc \in {"loop", "done"}) => db = Last(tr).db
  /\ ParentsPresent(store, db)
  /\ ParentsPresent(durable.store, durable.db)

\* main has ended normally after several flushes, the last of them with a
\* delivery assignment.
C17_Witness ==
  /\ mn.pc = "exit"
  /\ Len(calls) >= 2
  /\ Last(calls).batch.assignments_rows # << >>
  /\ durable.db.delivery_assignments # << >>

\* The identifier column of each table of the batch load.
IdColumn == [orders |-> "order_id"] @@ SerialColumn

\* C18: once _flush_orders_batch has been called, the sequence of every
\* table that holds rows is at the largest identifier in the table, so the
\* next value it gives is greater than every identifier present.
C18_SequencesAligned ==
  calls # << >>
    => \A t \in DOMAIN EmptyTables :
         db[t] # << >> => seq[t] = MaxOf(Column(db[t], IdColumn[t]))

\* The load has ended on sequences that were ahead of the tables: the
\* sequence of orders was set back to MAX(order_id), those of the child
\* tables are past the number of rows, a refund and a rating are stored.
C18_Witness ==
  /\ pc = "done"
  /\ Len(calls) >= 2
  /\ seq.orders = Len(db.orders)
  /\ calls[1].seq.orders > Len(db.orders)
  /\ db.refunds # << >>
  /\ db.ratings # << >>
  /\ seq.refunds > Len(db.refunds)

\* C19: every generated order refers to rows that are in storage: its
\* customer, its outlet, the menu item of each of its items and the courier
\* of its assignment exist, its delivery address is an address of its
\* customer, and its currency is AUD when that address is in Australia and
\* INR otherwise.
C19_ReferencesValid ==
  \A n \in 1..Len(made) :
    LET o == made[n]
    IN  /\ o.order.customer_id \in Column(store.customers, "customer_id")
        /\ o.order.restaurant_id \in Column(store.restaurant_outlets, "restaurant_id")
        /\ Column(o.items, "menu_item_id") \subseteq Column(store.menu_items, "menu_item_id")
        /\ Column(o.assignments, "courier_id") \subseteq Column(store.couriers, "courier_id")
        /\ \E a \in Rows(store.customer_addresses) :
             /\ a.address_id = o.order.delivery_address_id
             /\ a.customer_id = o.order.customer_id
             /\ o.order.currency_id =
                  CurrencyId(store, IF a.country = "Australia" THEN "AUD" ELSE "INR")

\* The six buffers after the rows of the orders os have been appended to b.
RECURSIVE AppendAll(_, _)
AppendAll(b, os) ==
  IF os = << >> THEN b ELSE AppendAll(AppendOrder(b, Head(os)), Tail(os))

\* The rows handed to _flush_orders_batch by the calls cs, in call order.
RECURSIVE Handed(_)
Handed(cs) ==
  IF cs = << >> THEN EmptyBuffers
  ELSE LET h == Handed(Tail(cs))
           b == Head(cs).batch
       IN  [f \in DOMAIN EmptyBuffers |-> b[f] \o h[f]]

\* The rows handed over so far followed by those still buffered.
HandedOrHeld ==
  LET h == Handed(calls)
  IN  IF pc = "loop"
      THEN [f \in DOMAIN EmptyBuffers |-> h[f] \o buf[f]]
      ELSE h

ChildBuffers ==
  {"order_items_rows", "events_rows", "assignments_rows", "refunds_rows", "ratings_rows"}

\* C20: between iterations the order buffer holds fewer than CHUNK_ROWS rows
\* and no batch handed to _flush_orders_batch holds more than CHUNK_ROWS;
\* the rows handed over, followed by the rows still buffered, are the rows
\* generated, each once and in order; every dependent row is in the batch
\* of its order; the orders generated so far have the ids base+1..base+i;
\* when the function returns, i = N_ORDERS, nothing is left unflushed, the
\* last batch holds the remainder and every order is in storage.
C20_LoopAndBuffers ==
  pc \in {"loop", "done"} =>
    /\ Len(buf.orders_rows) <= chunk_rows
    /\ pc = "loop" => Len(buf.orders_rows) < chunk_rows
    /\ \A n \in 1..Len(calls) :
         LET b == calls[n].batch
         IN  /\ Len(b.orders_rows) \in 1..chunk_rows
             /\ \A f \in ChildBuffers :
                  Column(b[f], "order_id") \subseteq Column(b.orders_rows, "order_id")
    /\ HandedOrHeld = AppendAll(EmptyBuffers, made)
    /\ Len(made) = i
    /\ \A n \in 1..Len(made) : made[n].order.order_id = base_order_id + n
    /\ pc = "done" =>
         /\ i = n_orders
         /\ Len(Handed(calls).orders_rows) = n_orders
         /\ Column(Handed(calls).orders_rows, "order_id")
              = (base_order_id + 1)..(base_order_id + n_orders)
         /\ Len(calls) = (n_orders + chunk_rows - 1) \div chunk_rows
         /\ (n_orders % chunk_rows # 0)
              => Len(Last(calls).batch.orders_rows) = n_orders % chunk_rows
         /\ \A id \in (base_order_id + 1)..(base_order_id + n_orders) :
              HasOrder(db.orders, id)

\* The function has returned after a full batch and a final partial one,
\* with refunds and ratings among the rows handed over.
C20_Witness ==
  /\ pc = "done"
  /\ n_orders = MaxOrders
  /\ Len(calls) >= 2
  /\ Len(calls[1].batch.orders_rows) = chunk_rows
  /\ Len(Last(calls).batch.orders_rows) < chunk_rows
  /\ Handed(calls).refunds_rows # << >>
  /\ Handed(calls).ratings_rows # << >>
  /\ Len(db.orders) = MaxOrders

\* C7: when the second of two runs with the same seed on a fresh target has
\* ended, its rows are those of the first run, timestamps included.
C7_RunsIdentical ==
  (pc = "done" /\ first # << >>)
    => (customers = first[1].customers /\ db = first[1].db)

====
